---- MODULE Spec2Model ----
(***************************************************************************)
(* grind-helper: the recommendation read path (src/default/main.py:        *)
(* get_tags, interpret) and the cache population write path                *)
(* (src/worker/main.py: check_cache_problem, invalidate_cache_schedule,    *)
(* the task queue, invalidate_cache), both over the shared memcache.       *)
(***************************************************************************)
EXTENDS Integers, Sequences, FiniteSets, TLC

\* ------------------------------------------------------------------ bounds
\* Largest number of entries of the submitted slug -> solved mapping.
MaxProblems == 3
\* Number of invocations of the population worker (task deliveries).
NumWorkers == 2

\* ------------------------------------------------------------- universes
SlugNames == <<"a", "b", "c", "d">>
Tags == {"dp", "greedy"}
\* The problems of the catalog provider the workers populate.
CatalogSlugs == {"a"}
Workers == 1..NumWorkers

\* Tag lists a cache entry can hold: the lists of distinct tags.
TagLists ==
  {<<>>} \cup {<<t>> : t \in Tags}
         \cup {p \in Tags \X Tags : p[1] # p[2]}

\* ------------------------------------------------------------- memcache
\* memcache.Client().get returns the stored value, or None when absent; the
\* call can also raise (service error, entry that cannot be decoded).
None == [some |-> FALSE]
Some(v) == [some |-> TRUE, val |-> v]
Fault == [raise |-> TRUE]

\* f"{slug}_tags", f"problem_{slug}_tags", f"problem_{slug}_title",
\* f"tag_{slug}_name": one key per (kind, slug).
TagsKey(slug) == <<"tags", slug>>
ProblemTagsKey(slug) == <<"problem_tags", slug>>
TitleKey(slug) == <<"problem_title", slug>>
TagNameKey(tag) == <<"tag_name", tag>>

Keys ==
  {TagsKey(s) : s \in CatalogSlugs} \cup {ProblemTagsKey(s) : s \in CatalogSlugs}
    \cup {TitleKey(s) : s \in CatalogSlugs} \cup {TagNameKey(t) : t \in Tags}

\* Display title of a problem and display name of a tag, as the catalog
\* provider reports them.
TitleOf(slug) == <<"title", slug>>
NameOf(tag) == <<"name", tag>>

VARIABLES
  cache,                  \* memcache: key -> None | Some(value)
  pc,                     \* position of the interpret request
  slug_to_solved_status,  \* the input dict, as its items in insertion order
  tasks,                  \* the get_tags tasks, one per input slug
  problem_to_tags,        \* slug -> tag list, as zipped from the results
  tag_info_map,           \* dict tag -> TagInfo, as its items in insertion order
  sorted_items,           \* sorted(tag_info_map.items(), key=ratio)
  k,                      \* index of the next item of the narrowing loop
  to_solve_tasks,         \* the candidate pool
  to_solve,               \* the current pick
  narrowed,               \* tags whose narrowing intersection was non-empty
  tag_progress,           \* dict tag -> ratio, as its items in insertion order
  to_solve_name,
  tag_to_name,
  wpc,                    \* position of each invalidate_cache invocation
  wheader,                \* its request carries X-AppEngine-QueueName
  wslug,                  \* request.form["slug"] of the invocation
  cache_for,              \* the TTL the invocation drew
  wcached,                \* what its check_cache_problem call returned
  detail,                 \* what get_problem_detail returned to it, or Fault
  tags,                   \* its list of the tag slugs of detail
  wi,                     \* index of the next tag of its loop over topic_tags
  wafter,                 \* the invocation began after a population of its slug
  populated,              \* slugs some invocation has finished updating
  writes,                 \* every memcache set so far: who, key, value, TTL
  spc,                    \* position of the invalidate_cache_schedule request
  sheader,                \* its request carries X-AppEngine-Cron
  topic,                  \* index of the topic of its outer loop
  api_response,           \* the slugs listed for that topic
  si,                     \* index of the slug of its inner loop
  checked,                \* what check_cache_problem returned, slug by slug
  response,               \* the slugs it enqueued a task for, in order
  queue,                  \* task queue: slug -> tasks not yet acknowledged
  catalog                 \* the provider's listing: topic -> problem slugs

\* The variables of the recommendation request, and those of the workers.
rvars ==
  <<pc, slug_to_solved_status, tasks, problem_to_tags, tag_info_map,
    sorted_items, k, to_solve_tasks, to_solve, narrowed, tag_progress,
    to_solve_name, tag_to_name>>
wvars ==
  <<wpc, wheader, wslug, cache_for, wcached, detail, tags, wi, wafter,
    populated, writes>>
\* The variables of the scheduler pass, the task queue and the catalog.
svars ==
  <<spc, sheader, topic, api_response, si, checked, response, queue, catalog>>
vars == <<cache, rvars, wvars, svars>>

\* ===================================================== src/default/main.py

NoPick == "-"
IndexError == "IndexError"

all_problems == [i \in DOMAIN slug_to_solved_status |-> slug_to_solved_status[i].slug]
InputSlugs == {slug_to_solved_status[i].slug : i \in DOMAIN slug_to_solved_status}
SolvedOf(slug) ==
  slug_to_solved_status[CHOOSE i \in DOMAIN slug_to_solved_status :
                          slug_to_solved_status[i].slug = slug].solved
SeqRange(s) == {s[i] : i \in DOMAIN s}

Pending == [done |-> FALSE]

\* The request ended in an exception instead of a rendered recommendation.
Raised == {"raised_gather", "raised_choice", "raised_title", "raised_names"}

\* `value or []`: a miss (None) and any falsy value become the empty list.
OrEmptyList(v) == IF v = None \/ v.val = <<>> THEN <<>> ELSE v.val

\* The outcomes of one memcache get of f"{slug}_tags": the cache is shared
\* with the workers and with expiry, so each read is an observation of its own.
TagsReadOutcomes == {None, Fault} \cup {Some(l) : l \in TagLists}

\* get_tags without the try block: the error of the cache read propagates.
get_tags_unguarded(got) ==
  IF got = Fault
    THEN [done |-> TRUE, got |-> got, raised |-> TRUE, value |-> <<>>]
    ELSE [done |-> TRUE, got |-> got, raised |-> FALSE,
          value |-> OrEmptyList(got)]

\* get_tags: tags = []; try: tags = get(...) or [] except: log; return tags
\* `got` is what memcache.Client().get(f"{slug}_tags") did.
get_tags(got) ==
  IF got = Fault
    THEN [done |-> TRUE, got |-> got, raised |-> FALSE, value |-> <<>>]
    ELSE [done |-> TRUE, got |-> got, raised |-> FALSE,
          value |-> OrEmptyList(got)]

\* One get_tags task runs to completion; the tasks complete in any order.
GetTagsTask(i) ==
  /\ pc = "gather"
  /\ tasks[i] = Pending
  /\ \E got \in TagsReadOutcomes :
       tasks' = [tasks EXCEPT ![i] = get_tags(got)]
  /\ UNCHANGED <<wvars, svars>>
  /\ UNCHANGED <<cache, pc, slug_to_solved_status, problem_to_tags,
                 tag_info_map, sorted_items, k, to_solve_tasks, to_solve,
                 narrowed, tag_progress, to_solve_name, tag_to_name>>

\* problem_to_tags = {problem: tags for problem, tags in zip(all_problems, results)}
ZipResults(results) ==
  [s \in InputSlugs |->
     results[CHOOSE i \in DOMAIN slug_to_solved_status : all_problems[i] = s]]

\* An aggregation that files every slug under solved, whatever its status.
AddTagSolved(m, slug, solved, tag) ==
  LET m1 == IF \E i \in DOMAIN m : m[i].name = tag
              THEN m
              ELSE Append(m, [name |-> tag, solved |-> {}, left |-> {}])
  IN [i \in DOMAIN m1 |->
        IF m1[i].name # tag THEN m1[i]
        ELSE [m1[i] EXCEPT !.solved = @ \cup {slug}]]

\* tag_info_map.setdefault(tag, TagInfo()); then add slug to solved or left.
AddTag(m, slug, solved, tag) ==
  LET m1 == IF \E i \in DOMAIN m : m[i].name = tag
              THEN m
              ELSE Append(m, [name |-> tag, solved |-> {}, left |-> {}])
  IN [i \in DOMAIN m1 |->
        IF m1[i].name # tag THEN m1[i]
        ELSE IF solved THEN [m1[i] EXCEPT !.solved = @ \cup {slug}]
                       ELSE [m1[i] EXCEPT !.left = @ \cup {slug}]]

RECURSIVE AddTags(_, _, _, _)
AddTags(m, slug, solved, tag_list) ==
  IF tag_list = <<>> THEN m
  ELSE AddTags(AddTag(m, slug, solved, Head(tag_list)), slug, solved,
               Tail(tag_list))

\* for slug, solved in slug_to_solved_status.items(): for tag in tags: ...
RECURSIVE BuildTagInfoMap(_, _, _)
BuildTagInfoMap(m, items, p2t) ==
  IF items = <<>> THEN m
  ELSE BuildTagInfoMap(
         AddTags(m, Head(items).slug, Head(items).solved, p2t[Head(items).slug]),
         Tail(items), p2t)

\* Ratios are kept exact, as numerator and denominator.
RatLE(a, b) == a.num * b.den <= b.num * a.den
RatLT(a, b) == a.num * b.den < b.num * a.den

\* A sort key that counts the problems left instead of the solved ones.
SortKeyLeft(item) ==
  [num |-> Cardinality(item.left),
   den |-> Cardinality(item.solved) + Cardinality(item.left)]

\* key=lambda x: len(x[1].solved) / (len(x[1].solved) + len(x[1].left))
SortKey(item) ==
  [num |-> Cardinality(item.solved),
   den |-> Cardinality(item.solved) + Cardinality(item.left)]

\* A sort in descending order of the key.
InsertSortedDescending(s, x) ==
  LET pos == Cardinality({i \in DOMAIN s : ~RatLT(SortKey(s[i]), SortKey(x))})
  IN SubSeq(s, 1, pos) \o <<x>> \o SubSeq(s, pos + 1, Len(s))

\* sorted() is stable: an item goes after the items whose key is not larger.
InsertSorted(s, x) ==
  LET pos == Cardinality({i \in DOMAIN s : ~RatLT(SortKey(x), SortKey(s[i]))})
  IN SubSeq(s, 1, pos) \o <<x>> \o SubSeq(s, pos + 1, Len(s))

RECURSIVE sorted(_)
sorted(m) ==
  IF m = <<>> THEN <<>>
  ELSE InsertSorted(sorted(SubSeq(m, 1, Len(m) - 1)), m[Len(m)])

\* A fallback pick that is left unset until a narrowing step succeeds.
FallbackUnset(pool) == {NoPick}

\* A choice that gives no pick for an empty pool instead of raising.
FallbackOrNoPick(pool) == IF pool = {} THEN {NoPick} ELSE pool

\* to_solve = random.choice(list(to_solve_tasks)): any member of the pool;
\* random.choice raises IndexError on an empty list.
FallbackPick(pool) == IF pool = {} THEN {IndexError} ELSE pool

\* results = await asyncio.gather(*tasks), then lines 135-155: the zip, the
\* aggregation, the initial pool and the fallback pick. gather re-raises the
\* exception of a task; random.choice of an empty list raises IndexError.
Gather ==
  /\ pc = "gather"
  /\ \A i \in DOMAIN tasks : tasks[i].done
  /\ IF \E i \in DOMAIN tasks : tasks[i].raised
       THEN /\ pc' = "raised_gather"
            /\ UNCHANGED <<problem_to_tags, tag_info_map, sorted_items,
                           to_solve_tasks, to_solve>>
       ELSE LET p2t == ZipResults([i \in DOMAIN tasks |-> tasks[i].value])
                m == BuildTagInfoMap(<<>>, slug_to_solved_status, p2t)
            IN /\ problem_to_tags' = p2t
               /\ tag_info_map' = m
               /\ to_solve_tasks' = InputSlugs
               /\ \E pick \in FallbackPick(InputSlugs) :
                    IF pick = IndexError
                      THEN /\ pc' = "raised_choice"
                           /\ UNCHANGED <<to_solve, sorted_items>>
                      ELSE /\ to_solve' = pick
                           /\ sorted_items' = sorted(m)
                           /\ pc' = "narrow"
  /\ UNCHANGED <<wvars, svars>>
  /\ UNCHANGED <<cache, slug_to_solved_status, tasks, k, narrowed,
                 tag_progress, to_solve_name, tag_to_name>>

\* A narrowing that keeps the pool when the intersection is empty.
NarrowKeep(pool, left) == IF pool \cap left = {} THEN pool ELSE pool \cap left

\* A narrowing that replaces the pool by the tag's left set.
NarrowReplace(pool, left) == left

\* A narrowing that lets the slugs without tags through.
NarrowOrUntagged(pool, left) ==
  (pool \cap left) \cup {s \in pool : problem_to_tags[s] = <<>>}

\* to_solve_tasks &= tag_info.left
Narrow(pool, left) == pool \cap left

\* len(solved) / (len(solved) + len(left)) * 100
solved_ratio(tag_info) ==
  [num |-> Cardinality(tag_info.solved) * 100,
   den |-> Cardinality(tag_info.solved) + Cardinality(tag_info.left)]

\* One iteration of the loop over the sorted items (lines 159-174).
NarrowStep ==
  /\ pc = "narrow"
  /\ k <= Len(sorted_items)
  /\ LET tag_info == sorted_items[k]
         pool == Narrow(to_solve_tasks, tag_info.left)
     IN /\ to_solve_tasks' = pool
        /\ to_solve' \in (IF pool # {} THEN pool ELSE {to_solve})
        /\ narrowed' = IF pool # {} THEN narrowed \cup {tag_info.name}
                                    ELSE narrowed
        /\ tag_progress' =
             Append(tag_progress,
                    [name |-> tag_info.name, ratio |-> solved_ratio(tag_info)])
  /\ k' = k + 1
  /\ UNCHANGED <<wvars, svars>>
  /\ UNCHANGED <<cache, pc, slug_to_solved_status, tasks,
                 problem_to_tags, tag_info_map, sorted_items, to_solve_name,
                 tag_to_name>>

\* `value or fallback` for a title or a name.
OrSlug(v, slug) == IF v = None THEN slug ELSE v.val

\* to_solve_name = memcache.Client().get(f"problem_{to_solve}_title") or to_solve
\* The read is not inside a try block: an error of the cache read propagates.
ResolveTitle ==
  /\ pc = "narrow"
  /\ k > Len(sorted_items)
  /\ \E got \in {None, Fault, Some(TitleOf(to_solve))} :
       IF got = Fault
         THEN pc' = "raised_title" /\ UNCHANGED to_solve_name
         ELSE /\ to_solve_name' = OrSlug(got, to_solve)
              /\ pc' = "names"
  /\ UNCHANGED <<wvars, svars>>
  /\ UNCHANGED <<cache, slug_to_solved_status, tasks, problem_to_tags,
                 tag_info_map, sorted_items, k, to_solve_tasks, to_solve,
                 narrowed, tag_progress, tag_to_name>>

\* tag_to_name = {slug: get(f"tag_{slug}_name") or slug for slug in tag_progress}
\* then render_template(...), 200. No try block here either.
ResolveNames ==
  /\ pc = "names"
  /\ LET names == {tag_progress[i].name : i \in DOMAIN tag_progress}
     IN \E got \in [names -> {"miss", "fault", "hit"}] :
          IF \E t \in names : got[t] = "fault"
            THEN pc' = "raised_names" /\ UNCHANGED tag_to_name
            ELSE /\ tag_to_name' =
                      [t \in names |->
                         OrSlug(IF got[t] = "hit" THEN Some(NameOf(t)) ELSE None, t)]
                 /\ pc' = "done"
  /\ UNCHANGED <<wvars, svars>>
  /\ UNCHANGED <<cache, slug_to_solved_status, tasks, problem_to_tags,
                 tag_info_map, sorted_items, k, to_solve_tasks, to_solve,
                 narrowed, tag_progress, to_solve_name>>

\* The request: interpret(problems, form) on a mapping of 0..MaxProblems
\* slugs.
InitInterpret ==
  /\ \E n \in 0..MaxProblems :
       /\ \E st \in [1..n -> BOOLEAN] :
            slug_to_solved_status =
              [i \in 1..n |-> [slug |-> SlugNames[i], solved |-> st[i]]]
       /\ tasks = [i \in 1..n |-> Pending]
  /\ pc = "gather"
  /\ problem_to_tags = <<>>
  /\ tag_info_map = <<>>
  /\ sorted_items = <<>>
  /\ k = 1
  /\ to_solve_tasks = {}
  /\ to_solve = NoPick
  /\ narrowed = {}
  /\ tag_progress = <<>>
  /\ to_solve_name = NoPick
  /\ tag_to_name = <<>>

\* ====================================================== src/worker/main.py

\* cache_for = 86400 * 30 + random.randint(-86400, 86400)
DaySeconds == 86400
BaseDays == 30
Jitters == {-DaySeconds, 0, DaySeconds}

\* The catalog provider's answer to getQuestionDetail: the title and the
\* topic tags (slug and name) of a problem. Every query for a slug gets the
\* same answer.
CatalogTopicTags(slug) == <<"dp", "greedy">>

get_problem_detail(slug) ==
  [title |-> TitleOf(slug),
   topic_tags |->
     [i \in DOMAIN CatalogTopicTags(slug) |->
        [slug |-> CatalogTopicTags(slug)[i],
         name |-> NameOf(CatalogTopicTags(slug)[i])]]]

NoDetail == [title |-> <<>>, topic_tags |-> <<>>]

\* The slugs of the tags that have no name in the cache yet, instead of all.
tag_slugs_uncached(d) ==
  SelectSeq([i \in DOMAIN d.topic_tags |-> d.topic_tags[i].slug],
            LAMBDA t : cache[TagNameKey(t)] = None)

\* [tag.slug for tag in detail.topic_tags]
tag_slugs(d) == [i \in DOMAIN d.topic_tags |-> d.topic_tags[i].slug]

\* check_cache_tag: memcache.Client().get(f"tag_{slug}_name") is not None
check_cache_tag(tag) == cache[TagNameKey(tag)] # None

\* The third conjunct of check_cache_problem:
\*   all(check_cache_tag(slug) for slug in get(f"problem_{slug}_tags")) is not None
\* all() returns a bool, and `is not None` is applied to that bool.
all_is_not_none(tag_list) ==
  LET all_cached == \A i \in DOMAIN tag_list : check_cache_tag(tag_list[i])
  IN all_cached \in BOOLEAN

\* The slug has all four kinds of entries: both tag lists, the title, and the
\* name of every tag of its cached tag list.
FullyCached(slug) ==
  /\ cache[TagsKey(slug)] # None
  /\ cache[ProblemTagsKey(slug)] # None
  /\ cache[TitleKey(slug)] # None
  /\ \A i \in DOMAIN cache[TagsKey(slug)].val :
       cache[TagNameKey(cache[TagsKey(slug)].val[i])] # None
  /\ \A i \in DOMAIN cache[ProblemTagsKey(slug)].val :
       cache[TagNameKey(cache[ProblemTagsKey(slug)].val[i])] # None

\* check_cache_problem(slug) evaluated against one state of the cache.
check_cache_problem(slug) ==
  /\ cache[TagsKey(slug)] # None
  /\ cache[ProblemTagsKey(slug)] # None
  /\ all_is_not_none(cache[ProblemTagsKey(slug)].val)
  /\ cache[TitleKey(slug)] # None

\* A set that fails: memcache stores nothing.
memcache_set_failed(c, key, value) == c

\* memcache.Client().set(key, value, time=cache_for)
memcache_set(c, key, value) == [c EXCEPT ![key] = Some(value)]

\* A population that never stores the title.
set_title_dropped(c, slug, title) == c

\* memcache.Client().set(f"problem_{slug}_title", detail.title, time=cache_for)
set_title(c, slug, title) == memcache_set(c, TitleKey(slug), title)

\* A set call whose TTL is drawn anew instead of taken from cache_for.
LoggedOwnTtl(w, key, value) ==
  writes \cup
    {[by |-> w, key |-> key, val |-> value,
      time |-> DaySeconds * BaseDays
                 + (IF key[1] = "tag_name" THEN -DaySeconds ELSE DaySeconds)]}

\* Every set call of an invocation passes time=cache_for.
Logged(w, key, value) ==
  writes \cup {[by |-> w, key |-> key, val |-> value, time |-> cache_for[w]]}

\* A handler that skips the check of the App Engine header.
AuthenticatedAlways(header) == TRUE

\* request.headers.get("X-AppEngine-QueueName", False), and likewise
\* "X-AppEngine-Cron": truthy when the header is present.
Authenticated(header) == header

\* invalidate_cache, lines 138-147: the queue header is checked ("FAIL", 403
\* without it), the TTL is drawn, the slug is taken from the form.
Invoke(w, header, slug, jitter) ==
  /\ wpc[w] = "idle"
  /\ wheader' = [wheader EXCEPT ![w] = header]
  /\ IF ~Authenticated(header)
       THEN /\ wpc' = [wpc EXCEPT ![w] = "denied"]
            /\ UNCHANGED <<wslug, cache_for, wafter>>
       ELSE /\ wpc' = [wpc EXCEPT ![w] = "check_tags"]
            /\ wslug' = [wslug EXCEPT ![w] = slug]
            /\ cache_for' = [cache_for EXCEPT ![w] = DaySeconds * BaseDays + jitter]
            /\ wafter' = [wafter EXCEPT ![w] = slug \in populated]
  /\ UNCHANGED <<cache, rvars, wcached, detail, tags, wi, populated, writes>>

\* A POST to /invalidate_cache, with or without the queue header, for any
\* problem of the catalog.
InvalidateCache(w) ==
  /\ \E header \in BOOLEAN, slug \in CatalogSlugs, jitter \in Jitters :
       Invoke(w, header, slug, jitter)
  /\ UNCHANGED svars

\* check_cache_problem, first conjunct: get(f"{slug}_tags") is not None
CheckTags(w) ==
  /\ wpc[w] = "check_tags"
  /\ IF cache[TagsKey(wslug[w])] # None
       THEN wpc' = [wpc EXCEPT ![w] = "check_problem_tags"] /\ UNCHANGED wcached
       ELSE /\ wpc' = [wpc EXCEPT ![w] = "fetch"]
            /\ wcached' = [wcached EXCEPT ![w] = "not_cached"]
  /\ UNCHANGED <<cache, rvars, svars, wheader, wslug, cache_for, detail, tags, wi, wafter,
                 populated, writes>>

\* second conjunct: get(f"problem_{slug}_tags") is not None
CheckProblemTags(w) ==
  /\ wpc[w] = "check_problem_tags"
  /\ IF cache[ProblemTagsKey(wslug[w])] # None
       THEN wpc' = [wpc EXCEPT ![w] = "check_tag_names"] /\ UNCHANGED wcached
       ELSE /\ wpc' = [wpc EXCEPT ![w] = "fetch"]
            /\ wcached' = [wcached EXCEPT ![w] = "not_cached"]
  /\ UNCHANGED <<cache, rvars, svars, wheader, wslug, cache_for, detail, tags, wi, wafter,
                 populated, writes>>

\* third conjunct: f"problem_{slug}_tags" is read again and iterated (None is
\* not iterable: TypeError), check_cache_tag is called on its tags, and the
\* result of all() is compared with None. The outcome depends on the tag
\* names only through all_is_not_none, so they are read in this one step.
CheckTagNames(w) ==
  /\ wpc[w] = "check_tag_names"
  /\ IF cache[ProblemTagsKey(wslug[w])] = None
       THEN wpc' = [wpc EXCEPT ![w] = "raised"] /\ UNCHANGED wcached
       ELSE IF all_is_not_none(cache[ProblemTagsKey(wslug[w])].val)
         THEN wpc' = [wpc EXCEPT ![w] = "check_title"] /\ UNCHANGED wcached
         ELSE /\ wpc' = [wpc EXCEPT ![w] = "fetch"]
              /\ wcached' = [wcached EXCEPT ![w] = "not_cached"]
  /\ UNCHANGED <<cache, rvars, svars, wheader, wslug, cache_for, detail, tags, wi, wafter,
                 populated, writes>>

\* fourth conjunct: get(f"problem_{slug}_title") is not None. When the check
\* returns True the handler logs "already in the cache" and returns "OK", 200.
CheckTitle(w) ==
  /\ wpc[w] = "check_title"
  /\ IF cache[TitleKey(wslug[w])] # None
       THEN /\ wpc' = [wpc EXCEPT ![w] = "done"]
            /\ wcached' = [wcached EXCEPT ![w] = "cached"]
       ELSE /\ wpc' = [wpc EXCEPT ![w] = "fetch"]
            /\ wcached' = [wcached EXCEPT ![w] = "not_cached"]
  /\ UNCHANGED <<cache, rvars, svars, wheader, wslug, cache_for, detail, tags, wi, wafter,
                 populated, writes>>

\* A handler that catches the failure of the catalog query and returns OK.
UpstreamFailureCaught == "done"

\* get_problem_detail is called outside any try block: the handler ends with
\* the exception of the query.
OnUpstreamFailure == "raised"

\* detail = get_problem_detail(slug); tags = [tag.slug for tag in
\* detail.topic_tags]. The failure of the query to the catalog provider is not
\* caught: the handler ends with the exception (detail records the failure).
GetProblemDetail(w) ==
  /\ wpc[w] = "fetch"
  /\ \E reachable \in BOOLEAN :
       IF reachable
         THEN /\ detail' = [detail EXCEPT ![w] = get_problem_detail(wslug[w])]
              /\ tags' = [tags EXCEPT ![w] = tag_slugs(get_problem_detail(wslug[w]))]
              /\ wi' = [wi EXCEPT ![w] = 1]
              /\ wpc' = [wpc EXCEPT ![w] = "set"]
         ELSE /\ wpc' = [wpc EXCEPT ![w] = OnUpstreamFailure]
              /\ detail' = [detail EXCEPT ![w] = Fault]
              /\ UNCHANGED <<tags, wi>>
  /\ UNCHANGED <<cache, rvars, svars, wheader, wslug, cache_for, wcached, wafter,
                 populated, writes>>

\* for tag in detail.topic_tags: set(f"tag_{tag.slug}_name", tag.name, time=cache_for)
SetTagName(w) ==
  /\ wpc[w] = "set"
  /\ wi[w] <= Len(detail[w].topic_tags)
  /\ LET tag == detail[w].topic_tags[wi[w]]
     IN /\ cache' = memcache_set(cache, TagNameKey(tag.slug), tag.name)
        /\ writes' = Logged(w, TagNameKey(tag.slug), tag.name)
  /\ wi' = [wi EXCEPT ![w] = @ + 1]
  /\ UNCHANGED <<rvars, svars, wpc, wheader, wslug, cache_for, wcached,
                 detail, tags, wafter, populated>>

\* memcache.Client().set(f"{slug}_tags", tags, time=cache_for)
SetTags(w) ==
  /\ wpc[w] = "set"
  /\ wi[w] > Len(detail[w].topic_tags)
  /\ cache' = memcache_set(cache, TagsKey(wslug[w]), tags[w])
  /\ writes' = Logged(w, TagsKey(wslug[w]), tags[w])
  /\ wpc' = [wpc EXCEPT ![w] = "set_problem_tags"]
  /\ UNCHANGED <<rvars, svars, wheader, wslug, cache_for, wcached, detail, tags, wi, wafter,
                 populated>>

\* memcache.Client().set(f"problem_{slug}_tags", tags, time=cache_for)
SetProblemTags(w) ==
  /\ wpc[w] = "set_problem_tags"
  /\ cache' = memcache_set(cache, ProblemTagsKey(wslug[w]), tags[w])
  /\ writes' = Logged(w, ProblemTagsKey(wslug[w]), tags[w])
  /\ wpc' = [wpc EXCEPT ![w] = "set_title"]
  /\ UNCHANGED <<rvars, svars, wheader, wslug, cache_for, wcached, detail, tags, wi, wafter,
                 populated>>

\* memcache.Client().set(f"problem_{slug}_title", detail.title, time=cache_for),
\* then "Finished updating" is logged and the handler returns "OK", 200.
SetTitle(w) ==
  /\ wpc[w] = "set_title"
  /\ cache' = set_title(cache, wslug[w], detail[w].title)
  /\ writes' = Logged(w, TitleKey(wslug[w]), detail[w].title)
  /\ wpc' = [wpc EXCEPT ![w] = "done"]
  /\ populated' = populated \cup {wslug[w]}
  /\ UNCHANGED <<rvars, svars, wheader, wslug, cache_for, wcached, detail, tags, wi, wafter>>

\* The name entries of the loop over topic_tags, from its i-th tag on.
RECURSIVE set_tag_names(_, _, _)
set_tag_names(c, topic_tags, i) ==
  IF i > Len(topic_tags) THEN c
  ELSE set_tag_names(
         memcache_set(c, TagNameKey(topic_tags[i].slug), topic_tags[i].name),
         topic_tags, i + 1)

\* Lines 152-173 run by one invocation alone: the cache after it populated
\* slug, starting from cache c.
SequentialPopulation(c, slug) ==
  LET d == get_problem_detail(slug)
      c1 == set_tag_names(c, d.topic_tags, 1)
      c2 == memcache_set(c1, TagsKey(slug), tag_slugs(d))
      c3 == memcache_set(c2, ProblemTagsKey(slug), tag_slugs(d))
  IN set_title(c3, slug, d.title)

\* What a population stores under a key.
CatalogValue(key) ==
  IF key[1] \in {"tags", "problem_tags"} THEN CatalogTopicTags(key[2])
  ELSE IF key[1] = "problem_title" THEN TitleOf(key[2])
  ELSE NameOf(key[2])

\* No invocation of the worker yet.
InitWorkers ==
  /\ wpc = [w \in Workers |-> "idle"]
  /\ wheader = [w \in Workers |-> FALSE]
  /\ wslug = [w \in Workers |-> NoPick]
  /\ cache_for = [w \in Workers |-> 0]
  /\ wcached = [w \in Workers |-> "unknown"]
  /\ detail = [w \in Workers |-> NoDetail]
  /\ tags = [w \in Workers |-> <<>>]
  /\ wi = [w \in Workers |-> 1]
  /\ wafter = [w \in Workers |-> FALSE]
  /\ populated = {}
  /\ writes = {}

\* No recommendation request.
InitNoRequest ==
  /\ slug_to_solved_status = <<>>
  /\ tasks = <<>>
  /\ pc = "off"
  /\ problem_to_tags = <<>>
  /\ tag_info_map = <<>>
  /\ sorted_items = <<>>
  /\ k = 1
  /\ to_solve_tasks = {}
  /\ to_solve = NoPick
  /\ narrowed = {}
  /\ tag_progress = <<>>
  /\ to_solve_name = NoPick
  /\ tag_to_name = <<>>

\* ------------------------------------------- invalidate_cache_schedule
\* for topic in ["algorithms", "shell", "databases", "concurrency"]
Topics == <<"algorithms", "shell", "databases", "concurrency">>

\* The slugs the provider lists, over all topics.
Listed(cat) == UNION {SeqRange(cat[t]) : t \in DOMAIN cat}

\* A pass that enqueues a task for every listed slug.
enqueue_always(cached) == TRUE

\* if check_cache_problem(slug): log "already in the cache" else: taskqueue.add
should_enqueue(cached) == ~cached

\* The scheduler request: the cron header is checked ("FAIL", 403 without
\* it), then the client is built and the response list is empty.
InvalidateCacheSchedule ==
  /\ spc = "idle"
  /\ \E header \in BOOLEAN :
       /\ sheader' = header
       /\ spc' = IF ~Authenticated(header) THEN "denied" ELSE "list"
  /\ UNCHANGED <<cache, rvars, wvars, topic, api_response, si, checked,
                 response, queue, catalog>>

\* api_response = api_instance.api_problems_topic_get(topic=topic): the slugs
\* of the topic, or the exception of the query. After the last topic the
\* handler returns the joined response, 200.
ListTopic ==
  /\ spc = "list"
  /\ IF topic > Len(Topics)
       THEN spc' = "done" /\ UNCHANGED <<topic, api_response, si>>
       ELSE \E reachable \in BOOLEAN :
              IF ~reachable
                THEN spc' = "raised_list" /\ UNCHANGED <<topic, api_response, si>>
                ELSE /\ api_response' = catalog[Topics[topic]]
                     /\ si' = 1
                     /\ IF catalog[Topics[topic]] = <<>>
                          THEN spc' = "list" /\ topic' = topic + 1
                          ELSE spc' = "check_tags" /\ UNCHANGED topic
  /\ UNCHANGED <<cache, rvars, wvars, sheader, checked, response, queue, catalog>>

\* The slug of the inner loop.
sslug == api_response[si]

\* The inner loop goes to its next slug, or the outer loop to its next topic.
NextSlug ==
  IF si < Len(api_response)
    THEN si' = si + 1 /\ spc' = "check_tags" /\ UNCHANGED topic
    ELSE si' = si /\ spc' = "list" /\ topic' = topic + 1

\* check_cache_problem(slug) has returned `cached`: lines 119-121.
Checked(cached) ==
  /\ checked' = Append(checked, [slug |-> sslug, cached |-> cached])
  /\ IF should_enqueue(cached)
       THEN spc' = "enqueue" /\ UNCHANGED <<topic, si>>
       ELSE NextSlug

\* The four conjuncts of check_cache_problem, as called from the pass; each
\* memcache get is a step of its own.
ScheduleCheckTags ==
  /\ spc = "check_tags"
  /\ IF cache[TagsKey(sslug)] # None
       THEN spc' = "check_problem_tags" /\ UNCHANGED <<topic, si, checked>>
       ELSE Checked(FALSE)
  /\ UNCHANGED <<cache, rvars, wvars, sheader, api_response, response, queue,
                 catalog>>

ScheduleCheckProblemTags ==
  /\ spc = "check_problem_tags"
  /\ IF cache[ProblemTagsKey(sslug)] # None
       THEN spc' = "check_tag_names" /\ UNCHANGED <<topic, si, checked>>
       ELSE Checked(FALSE)
  /\ UNCHANGED <<cache, rvars, wvars, sheader, api_response, response, queue,
                 catalog>>

\* f"problem_{slug}_tags" is read a second time and iterated: when the entry
\* is gone by then, iterating None raises TypeError.
ScheduleCheckTagNames ==
  /\ spc = "check_tag_names"
  /\ IF cache[ProblemTagsKey(sslug)] = None
       THEN spc' = "raised_check" /\ UNCHANGED <<topic, si, checked>>
       ELSE IF all_is_not_none(cache[ProblemTagsKey(sslug)].val)
         THEN spc' = "check_title" /\ UNCHANGED <<topic, si, checked>>
         ELSE Checked(FALSE)
  /\ UNCHANGED <<cache, rvars, wvars, sheader, api_response, response, queue,
                 catalog>>

ScheduleCheckTitle ==
  /\ spc = "check_title"
  /\ Checked(cache[TitleKey(sslug)] # None)
  /\ UNCHANGED <<cache, rvars, wvars, sheader, api_response, response, queue,
                 catalog>>

\* task = taskqueue.add(url="/invalidate_cache", target="worker",
\* params={"slug": slug}); response.append(...)
TaskqueueAdd ==
  /\ spc = "enqueue"
  /\ queue' = [queue EXCEPT ![sslug] = @ + 1]
  /\ response' = Append(response, sslug)
  /\ NextSlug
  /\ UNCHANGED <<cache, rvars, wvars, sheader, api_response, checked, catalog>>

\* An entry expires or memcache evicts it.
Evict(key) ==
  /\ cache[key] # None
  /\ cache' = [cache EXCEPT ![key] = None]
  /\ UNCHANGED <<rvars, wvars, svars>>

\* The queue delivers a task it holds: a POST to /invalidate_cache with the
\* queue header and the task's slug. A task stays in the queue until a
\* delivery of it is answered with 200, so it can be delivered again. The
\* TTL plays no part where nothing expires: the jitter drawn is 0.
DeliverTask(w) ==
  /\ \E slug \in DOMAIN queue :
       /\ queue[slug] > 0
       /\ Invoke(w, TRUE, slug, 0)
  /\ UNCHANGED svars

\* A POST to /invalidate_cache that does not come from the queue; the handler
\* returns before it reads the form.
ForeignRequest(w) ==
  /\ Invoke(w, FALSE, NoPick, 0)
  /\ UNCHANGED svars

\* The handler has returned or raised. The answer "OK", 200 to a delivery
\* acknowledges the task; after an exception the task is kept for a retry.
Returned(w) ==
  /\ wpc[w] \in {"done", "denied", "raised"}
  /\ queue' = IF wpc[w] = "done" /\ wheader[w] /\ queue[wslug[w]] > 0
                THEN [queue EXCEPT ![wslug[w]] = @ - 1]
                ELSE queue
  /\ wpc' = [wpc EXCEPT ![w] = "idle"]
  /\ wheader' = [wheader EXCEPT ![w] = FALSE]
  /\ wslug' = [wslug EXCEPT ![w] = NoPick]
  /\ cache_for' = [cache_for EXCEPT ![w] = 0]
  /\ wcached' = [wcached EXCEPT ![w] = "unknown"]
  /\ detail' = [detail EXCEPT ![w] = NoDetail]
  /\ tags' = [tags EXCEPT ![w] = <<>>]
  /\ wi' = [wi EXCEPT ![w] = 1]
  /\ wafter' = [wafter EXCEPT ![w] = FALSE]
  /\ UNCHANGED <<cache, rvars, populated, writes, spc, sheader, topic,
                 api_response, si, checked, response, catalog>>

\* The scheduler request has not been made; cat is the provider's listing.
InitSchedule(cat) ==
  /\ spc = "idle"
  /\ sheader = FALSE
  /\ topic = 1
  /\ api_response = <<>>
  /\ si = 1
  /\ checked = <<>>
  /\ response = <<>>
  /\ queue = [s \in Listed(cat) |-> 0]
  /\ catalog = cat

\* The listing of a provider whose only problem is in the first topic.
OneProblemCatalog ==
  [t \in SeqRange(Topics) |-> IF t = Topics[1] THEN <<"a">> ELSE <<>>]

\* No scheduler request.
InitNoSchedule ==
  /\ spc = "off"
  /\ sheader = FALSE
  /\ topic = 1
  /\ api_response = <<>>
  /\ si = 1
  /\ checked = <<>>
  /\ response = <<>>
  /\ queue = [s \in CatalogSlugs |-> 0]
  /\ catalog = OneProblemCatalog

\* ------------------------------------------------------- specifications
\* The read path: one recommendation request. It writes nothing to the cache.
Init ==
  /\ InitInterpret
  /\ InitWorkers
  /\ InitNoSchedule
  /\ cache = [key \in Keys |-> None]

Next ==
  \/ \E i \in DOMAIN tasks : GetTagsTask(i)
  \/ Gather
  \/ NarrowStep
  \/ ResolveTitle
  \/ ResolveNames

Spec == Init /\ [][Next]_vars

\* The write path: NumWorkers deliveries of population tasks, interleaved at
\* every cache call, from any prior content of the cache (each key present
\* with the value a population stores, or absent).
WorkerInit ==
  /\ InitNoRequest
  /\ InitWorkers
  /\ InitNoSchedule
  /\ \E present \in SUBSET Keys :
       cache = [key \in Keys |->
                  IF key \in present THEN Some(CatalogValue(key)) ELSE None]

WorkerNext ==
  \E w \in Workers :
    \/ InvalidateCache(w)
    \/ CheckTags(w)
    \/ CheckProblemTags(w)
    \/ CheckTagNames(w)
    \/ CheckTitle(w)
    \/ GetProblemDetail(w)
    \/ SetTagName(w)
    \/ SetTags(w)
    \/ SetProblemTags(w)
    \/ SetTitle(w)

WorkerSpec == WorkerInit /\ [][WorkerNext]_vars

\* The scheduler pass alone, over a catalog of two problems, each in any of
\* the topics, from any prior content of the cache and with entries expiring
\* or being evicted at any moment.
ListedSlugs == {"a", "b"}

ScheduleKeys ==
  {TagsKey(s) : s \in ListedSlugs} \cup {ProblemTagsKey(s) : s \in ListedSlugs}
    \cup {TitleKey(s) : s \in ListedSlugs} \cup {TagNameKey(t) : t \in Tags}

\* Each problem is listed under one topic.
Catalogs ==
  {[t \in SeqRange(Topics) |->
      (IF t = ta THEN <<"a">> ELSE <<>>) \o (IF t = tb THEN <<"b">> ELSE <<>>)] :
     ta \in SeqRange(Topics), tb \in SeqRange(Topics)}

ScheduleInit ==
  /\ InitNoRequest
  /\ InitWorkers
  /\ \E cat \in Catalogs : InitSchedule(cat)
  /\ \E present \in SUBSET ScheduleKeys :
       cache = [key \in ScheduleKeys |->
                  IF key \in present THEN Some(CatalogValue(key)) ELSE None]

SchedulerNext ==
  \/ InvalidateCacheSchedule
  \/ ListTopic
  \/ ScheduleCheckTags
  \/ ScheduleCheckProblemTags
  \/ ScheduleCheckTagNames
  \/ ScheduleCheckTitle
  \/ TaskqueueAdd

ScheduleNext ==
  \/ SchedulerNext
  \/ \E key \in DOMAIN cache : Evict(key)

ScheduleSpec == ScheduleInit /\ [][ScheduleNext]_vars

\* The whole write path: one scheduler pass, the task queue, and NumWorkers
\* handler instances that serve the deliveries of the queue (and requests that
\* do not come from it), from any prior content of the cache. No entry
\* expires during the run.
SystemInit ==
  /\ InitNoRequest
  /\ InitWorkers
  /\ InitSchedule(OneProblemCatalog)
  /\ \E present \in SUBSET Keys :
       cache = [key \in Keys |->
                  IF key \in present THEN Some(CatalogValue(key)) ELSE None]

WorkerStep(w) ==
  \/ CheckTags(w)
  \/ CheckProblemTags(w)
  \/ CheckTagNames(w)
  \/ CheckTitle(w)
  \/ GetProblemDetail(w)
  \/ SetTagName(w)
  \/ SetTags(w)
  \/ SetProblemTags(w)
  \/ SetTitle(w)

SystemNext ==
  \/ SchedulerNext
  \/ \E w \in Workers :
       \/ DeliverTask(w)
       \/ ForeignRequest(w)
       \/ WorkerStep(w)
       \/ Returned(w)

SystemSpec == SystemInit /\ [][SystemNext]_vars

\* The catalog query of invocation w succeeds.
Fetched(w) == GetProblemDetail(w) /\ wpc'[w] = "set"

\* The handlers that have started do not all stop; the queue keeps
\* delivering a task it holds (retry policy); the provider is reachable again
\* and again.
Fairness ==
  /\ WF_vars(SchedulerNext)
  /\ WF_vars(\E w \in Workers : WorkerStep(w) \/ Returned(w))
  /\ SF_vars(\E w \in Workers : DeliverTask(w))
  /\ SF_vars(\E w \in Workers : Fetched(w))

FairSystemSpec == SystemInit /\ [][SystemNext]_vars /\ Fairness

\* ================================================================ claims
\* The narrowing loop has started: the pool and the pick are set.
Picked == pc \in {"narrow", "names", "done"}

\* The input slugs that are solved (left: unsolved) and carry tag t in the
\* tag list the fan-out returned for them.
SolvedWith(t) ==
  {s \in InputSlugs : SolvedOf(s) /\ t \in SeqRange(problem_to_tags[s])}
LeftWith(t) ==
  {s \in InputSlugs : ~SolvedOf(s) /\ t \in SeqRange(problem_to_tags[s])}

\* A step of the narrowing loop on a tag whose left set does not meet the pool.
EmptyNarrowStep ==
  /\ pc = "narrow"
  /\ k' = k + 1
  /\ to_solve_tasks \cap sorted_items[k].left = {}

\* C1: for a non-empty mapping and any outcome of the tag lookups, the slug
\* interpret recommends is a key of the input mapping.
C1_PickIsInputSlug ==
  (Picked /\ slug_to_solved_status # <<>>) => to_solve \in InputSlugs

C1_Witness ==
  /\ pc = "done"
  /\ Len(slug_to_solved_status) >= 2
  /\ \E i \in DOMAIN tasks : tasks[i].got = None
  /\ \E i \in DOMAIN tasks : tasks[i].got \notin {None, Fault} /\ tasks[i].value # <<>>
  /\ to_solve \in InputSlugs

C3_MonotonicNarrowing ==
  /\ [](Picked =>
          \A i \in DOMAIN sorted_items :
            sorted_items[i].name \in narrowed => to_solve \in sorted_items[i].left)
  /\ [][(pc = "narrow" /\ k' = k + 1) => to_solve_tasks' \subseteq to_solve_tasks]_vars

C3_Witness ==
  /\ pc = "done"
  /\ Cardinality(narrowed) >= 2
  /\ to_solve_tasks # InputSlugs
  /\ to_solve_tasks # {}

\* C4: tag_progress lists the tags by non-decreasing ratio, and each ratio is
\* 100 * |solved| / (|solved| + |left|) of its tag, within [0, 100].
C4_TagProgressAscending ==
  Picked =>
    /\ \A i, j \in DOMAIN tag_progress :
         i < j => RatLE(tag_progress[i].ratio, tag_progress[j].ratio)
    /\ \A i \in DOMAIN tag_progress :
         LET r == tag_progress[i].ratio
             s == Cardinality(SolvedWith(tag_progress[i].name))
             l == Cardinality(LeftWith(tag_progress[i].name))
         IN /\ s + l > 0
            /\ r.den > 0
            /\ r.num * (s + l) = 100 * s * r.den
            /\ 0 <= r.num
            /\ r.num <= 100 * r.den
    /\ (pc = "done" =>
          {tag_progress[i].name : i \in DOMAIN tag_progress}
            = {tag_info_map[i].name : i \in DOMAIN tag_info_map})

\* Two tags with different ratios, recorded in the reverse of the order in
\* which the aggregation met them.
C4_Witness ==
  /\ pc = "done"
  /\ Len(tag_progress) = 2
  /\ RatLT(tag_progress[1].ratio, tag_progress[2].ratio)
  /\ tag_info_map[1].name = tag_progress[2].name
  /\ 0 < tag_progress[1].ratio.num

\* C5: the fan-out ends without raising, only once every lookup has completed,
\* with one entry per input slug: the empty list for a lookup that missed or
\* raised, the list its own lookup returned otherwise.
C5_FanOutComplete ==
  pc # "gather" =>
    /\ pc # "raised_gather"
    /\ \A i \in DOMAIN tasks : tasks[i].done
    /\ DOMAIN problem_to_tags = InputSlugs
    /\ \A i \in DOMAIN tasks :
         problem_to_tags[all_problems[i]] =
           (IF tasks[i].got \in {None, Fault} THEN <<>> ELSE tasks[i].got.val)

C5_Witness ==
  /\ pc = "done"
  /\ \E i \in DOMAIN tasks : tasks[i].got = Fault
  /\ \E i \in DOMAIN tasks : tasks[i].got = None
  /\ \E i \in DOMAIN tasks :
       tasks[i].got \notin {None, Fault} /\ Len(tasks[i].value) = 2

\* C6: for a non-empty input and any miss or error of any cache read,
\* interpret returns a recommendation, never an error.
C6_ReadPathNeverFails ==
  slug_to_solved_status # <<>> => pc \notin Raised

\* The positions of an invocation inside its check_cache_problem call.
CheckPcs == {"check_tags", "check_problem_tags", "check_tag_names", "check_title"}

\* The invocation has ended: "OK", 200, or "FAIL", 403, or an exception.
Finished(w) == wpc[w] \in {"done", "denied", "raised"}

EmptyCache == [key \in Keys |-> None]

\* C7: whenever invalidate_cache for slug s returns OK, the cache holds both
\* tag lists and the title of s and the name of every tag of its cached tag
\* list, whatever the cache held before.
C7_OkImpliesFullyCached ==
  \A w \in Workers : wpc[w] = "done" => FullyCached(wslug[w])

\* C8: check_cache_problem(s) reports s as cached if and only if all four
\* kinds of entries are present (stated of the calls made while no invocation
\* has written yet, so that the cache the call read is the cache now).
C8_CheckIffAllFourKinds ==
  \A w \in Workers :
    (wcached[w] # "unknown" /\ writes = {}) =>
      (wcached[w] = "cached" <=> FullyCached(wslug[w]))

\* C9: once a population of s has finished, the completeness check reports s
\* as cached, and an invocation for s that begins afterwards only runs the
\* check: it does not query the catalog and writes nothing to the cache.
C9_SecondInvocationIsNoOp ==
  /\ \A s \in populated : check_cache_problem(s)
  /\ \A w \in Workers :
       wafter[w] =>
         /\ wpc[w] \in CheckPcs \cup {"done"}
         /\ wcached[w] # "not_cached"
         /\ detail[w] = NoDetail
         /\ \A r \in writes : r.by # w

\* One invocation populated the slug and a later one found it cached.
C9_Witness ==
  \E w1, w2 \in Workers :
    /\ wpc[w1] = "done" /\ wcached[w1] = "not_cached"
    /\ \E r \in writes : r.by = w1
    /\ wafter[w2] /\ wpc[w2] = "done" /\ wcached[w2] = "cached"
    /\ wslug[w1] = wslug[w2]

\* C10: all the sets of a key store the same value whichever invocation makes
\* them, and once every invocation has ended the entries of a populated slug
\* are those a single population run alone stores.
C10_SameValueWrites ==
  /\ \A r1, r2 \in writes : r1.key = r2.key => r1.val = r2.val
  /\ (\A w \in Workers : Finished(w)) =>
       \A s \in populated : \A key \in Keys :
         SequentialPopulation(EmptyCache, s)[key] # None =>
           cache[key] = SequentialPopulation(EmptyCache, s)[key]

\* Two invocations for the same slug both found it not cached and both
\* stored its entries, with different TTLs.
C10_Witness ==
  \E w1, w2 \in Workers :
    /\ w1 # w2 /\ wslug[w1] = wslug[w2]
    /\ wpc[w1] = "done" /\ wpc[w2] = "done"
    /\ cache_for[w1] # cache_for[w2]
    /\ \E r1, r2 \in writes :
         r1.by = w1 /\ r2.by = w2 /\ r1.key = TagsKey(wslug[w1]) /\ r2.key = r1.key

\* C15: with an empty mapping the selection ends in an error (random.choice
\* of the empty pool) and returns neither a pick nor a progress table.
C15_EmptyInputRaises ==
  slug_to_solved_status = <<>> =>
    /\ pc \in {"gather", "raised_choice"}
    /\ to_solve = NoPick
    /\ to_solve_name = NoPick
    /\ tag_progress = <<>>

C15_Witness ==
  slug_to_solved_status = <<>> /\ pc = "raised_choice"

\* The input slugs whose tag lookup gave the empty list.
Untagged == {s \in InputSlugs : problem_to_tags[s] = <<>>}

\* C16: a slug whose tag list is empty is in no tag's solved or left set, is
\* in the initial candidate pool, and is the pick only as the fallback pick,
\* i.e. only while no narrowing step had a non-empty intersection.
C16_UntaggedOnlyAsFallback ==
  Picked =>
    \A s \in Untagged :
      /\ \A i \in DOMAIN tag_info_map :
           s \notin tag_info_map[i].solved \cup tag_info_map[i].left
      /\ (k = 1 => s \in to_solve_tasks)
      /\ (to_solve = s => narrowed = {})

\* An untagged slug is the final pick although a tagged slug was submitted
\* and a narrowing step ran.
C16_Witness ==
  /\ pc = "done"
  /\ to_solve \in Untagged
  /\ Len(tag_progress) >= 1
  /\ InputSlugs \ Untagged # {}

\* C17: for every tag of the aggregation map, solved is the set of solved
\* input slugs carrying the tag, left the set of unsolved ones, the two are
\* disjoint, and together they are not empty.
C17_AggregationExact ==
  Picked =>
    /\ \A i \in DOMAIN tag_info_map :
         /\ tag_info_map[i].solved = SolvedWith(tag_info_map[i].name)
         /\ tag_info_map[i].left = LeftWith(tag_info_map[i].name)
         /\ tag_info_map[i].solved \cap tag_info_map[i].left = {}
         /\ Cardinality(tag_info_map[i].solved)
              + Cardinality(tag_info_map[i].left) >= 1
    /\ \A i, j \in DOMAIN tag_info_map :
         tag_info_map[i].name = tag_info_map[j].name => i = j

\* A tag with solved and unsolved slugs, and a second tag.
C17_Witness ==
  /\ pc = "done"
  /\ Len(tag_info_map) = 2
  /\ \E i \in DOMAIN tag_info_map :
       /\ Cardinality(tag_info_map[i].solved) >= 1
       /\ Cardinality(tag_info_map[i].left) >= 2

\* solved / (solved + left) of item a is not larger than that of item b.
RatioNotLarger(a, b) ==
  Cardinality(a.solved) * (Cardinality(b.solved) + Cardinality(b.left))
    <= Cardinality(b.solved) * (Cardinality(a.solved) + Cardinality(a.left))

SomeLeft == \E i \in DOMAIN tag_info_map : tag_info_map[i].left # {}

\* C18: when some tag has a non-empty left set, the first narrowing step has
\* a non-empty intersection and the final pick is an unsolved input slug in
\* the left set of a tag of minimum solved ratio; the final pick is a solved
\* slug only when no tag has a non-empty left set.
C18_PickUnsolvedOfLeastSolvedTag ==
  /\ (Picked /\ k > 1 /\ SomeLeft) => sorted_items[1].name \in narrowed
  /\ (pc = "done" /\ SomeLeft) =>
       /\ to_solve \in InputSlugs
       /\ ~SolvedOf(to_solve)
       /\ \E i \in DOMAIN tag_info_map :
            /\ to_solve \in tag_info_map[i].left
            /\ \A j \in DOMAIN tag_info_map :
                 RatioNotLarger(tag_info_map[i], tag_info_map[j])
  /\ (pc = "done" /\ to_solve \in InputSlugs /\ SolvedOf(to_solve)) => ~SomeLeft

\* Two tags of different ratios, the second one met having the smaller; the
\* pick is an unsolved slug of that tag, and solved slugs were submitted.
C18_Witness ==
  /\ pc = "done"
  /\ Len(tag_info_map) = 2
  /\ ~RatioNotLarger(tag_info_map[1], tag_info_map[2])
  /\ to_solve \in tag_info_map[2].left
  /\ \E s \in InputSlugs : SolvedOf(s)
  /\ tag_info_map[1].left # {}
  /\ to_solve \notin tag_info_map[1].left

\* The memcache sets invocation w has made.
WritesBy(w) == {r \in writes : r.by = w}

\* C13: when the catalog query of an invocation fails, the invocation ends
\* with the exception, not with OK, and it has set no cache entry.
C13_UpstreamFailurePropagates ==
  \A w \in Workers :
    detail[w] = Fault =>
      /\ wpc[w] = "raised"
      /\ wcached[w] = "not_cached"
      /\ WritesBy(w) = {}

\* One invocation failed at the catalog query while another populated.
C13_Witness ==
  \E w1, w2 \in Workers :
    /\ detail[w1] = Fault /\ wpc[w1] = "raised"
    /\ wpc[w2] = "done" /\ WritesBy(w2) # {}
    /\ wslug[w1] = wslug[w2]

\* C14: all the entries one invocation sets carry the same TTL, an integer
\* within one day of 30 days: 2505600..2678400 seconds; an invocation that
\* populated has set the tag names, both tag lists and the title.
C14_OneTtlWithinJitter ==
  /\ \A r1, r2 \in writes : r1.by = r2.by => r1.time = r2.time
  /\ \A r \in writes : r.time \in 2505600..2678400
  /\ \A w \in Workers :
       (wpc[w] = "done" /\ wcached[w] = "not_cached") =>
         {r.key : r \in WritesBy(w)} =
           {TagsKey(wslug[w]), ProblemTagsKey(wslug[w]), TitleKey(wslug[w])}
             \cup {TagNameKey(tags[w][i]) : i \in DOMAIN tags[w]}

\* Two populations, one with the shortest and one with the longest TTL.
C14_Witness ==
  \E w1, w2 \in Workers :
    /\ wpc[w1] = "done" /\ wpc[w2] = "done"
    /\ Cardinality(WritesBy(w1)) = 5 /\ Cardinality(WritesBy(w2)) = 5
    /\ \A r \in WritesBy(w1) : r.time = 2505600
    /\ \A r \in WritesBy(w2) : r.time = 2678400

\* The number of tasks the pass has enqueued for a slug, and whether the
\* pass has recorded the given verdict of check_cache_problem for it.
Enqueued(slug) == Cardinality({i \in DOMAIN response : response[i] = slug})
CheckedAs(slug, cached) ==
  \E i \in DOMAIN checked : checked[i] = [slug |-> slug, cached |-> cached]

C12_DeniedWithoutCredential ==
  /\ []((spc # "idle" /\ ~sheader) =>
          /\ spc = "denied"
          /\ topic = 1 /\ api_response = <<>>
          /\ checked = <<>> /\ response = <<>>
          /\ \A s \in DOMAIN queue : queue[s] = 0)
  /\ [](\A w \in Workers :
          (wpc[w] # "idle" /\ ~wheader[w]) =>
            /\ wpc[w] = "denied"
            /\ wcached[w] = "unknown"
            /\ detail[w] = NoDetail
            /\ tags[w] = <<>>)
  /\ [][(spc' = "denied" /\ spc # "denied") =>
          (spc = "idle" /\ UNCHANGED <<cache, queue, writes>>)]_vars
  /\ [][\A w \in Workers :
          (wpc'[w] = "denied" /\ wpc[w] # "denied") =>
            (wpc[w] = "idle" /\ UNCHANGED <<cache, queue, writes>>)]_vars

\* Both requests were denied while entries were missing from the cache.
C12_Witness ==
  /\ spc = "denied"
  /\ \E w \in Workers : wpc[w] = "denied"
  /\ \E key \in DOMAIN cache : cache[key] = None

\* C19: with retried deliveries, a provider that is reachable again and again
\* and no expiry, a slug the scheduler enqueued a task for is eventually fully
\* cached and reported as cached by check_cache_problem.
C19_EnqueuedEventuallyCached ==
  \A s \in CatalogSlugs :
    (queue[s] > 0) ~> (FullyCached(s) /\ check_cache_problem(s))

\* The task was enqueued, a delivery failed at the catalog query, and the
\* slug is fully cached with its task acknowledged.
C19_Witness ==
  /\ response = <<"a">>
  /\ queue["a"] = 0
  /\ FullyCached("a")
  /\ \E w \in Workers : detail[w] = Fault
  /\ \E w \in Workers : WritesBy(w) # {}

\* C20: check_cache_problem never raises, whatever happens to the entries of
\* the slug between its reads, so the check never aborts the scheduler pass.
C20_CheckNeverRaises == spc # "raised_check"

====
